---- MODULE Spec2Model ----
(***************************************************************************)
(* The worker runtime core of deepapp_golang_grpc_hub: one worker process  *)
(* holding a bidirectional gRPC stream to the hub.                         *)
(*                                                                         *)
(* Three worker variants share the same shape and are modelled together,   *)
(* selected by `variant`:                                                  *)
(*   "sdk"    src/shared/worker-sdk/python/worker_sdk.py      (WorkerSDK)  *)
(*   "plugin" src/services/python-worker/worker_plugin_system.py           *)
(*                                                         (PluginWorker)  *)
(*   "grpc"   src/services/python-worker/worker_grpc.py   (PythonWorker)   *)
(*                                                                         *)
(* Threads of the process:                                                 *)
(*   main      run() / connect_and_run()                     (mainPc)      *)
(*   sender    gRPC consuming _request_generator()           (genPc)       *)
(*   receiver  _receive_loop, which also RUNS THE HANDLERS   (recvPc)      *)
(*   callers   invocations of call_worker: "h" is the capability handler   *)
(*             (it runs on the receiver thread), Threads are other threads *)
(*             of the process using the public call_worker method.         *)
(* The hub and the peer workers are the environment (HubDeliver).          *)
(***************************************************************************)
EXTENDS Integers, Sequences, FiniteSets, TLC

\* Bounds of the model.
MaxCalls == 2        \* call_worker invocations in one run
MaxInbound == 2      \* envelopes the hub delivers in one run

Variants == {"sdk", "plugin", "grpc"}
\* The deepapp_sdk Worker: it serves requests and has no call_worker.
Deepapp == "deepapp"
\* python-worker-v2: DynamicWorker and its PluginWorker.
V2Variants == {"dynamic", "plugin_v2"}
Threads == {"t1", "t2"}
Handler == "h"
Callers == Threads \cup {Handler}

\* threading.Lock(): unlocked, or held by a caller's thread or the receiver.
Receiver == "recv"
LockHolders == {"free", Receiver} \cup Callers

WorkerId == "w1"
TargetWorker == "w2"

VARIABLES
    variant,             \* which worker class this process runs
    threads,             \* the application threads that use call_worker in this run
    clients,             \* the request shapes the hub's clients send in this run
    replies,             \* the kinds of reply the peer worker gives in this run
    clock,               \* "fine": time.time() reads a new microsecond for every
                         \* response of this run; "coarse": it may read the same
                         \* value for two responses
    running,             \* self.running
    channel,             \* self.channel: "none" | "open" | "closed"
    queue_created,       \* self.send_queue holds a queue.Queue
    send_queue,          \* contents of self.send_queue
    sent,                \* envelopes the sender generator has yielded (the wire)
    capability_handlers, \* self.capability_handlers and self.capabilities (in
                         \* PluginWorker, PluginManager.plugins): entries
                         \* [name, handler, description], one per name
    pending_lock,        \* self.pending_lock: "free" or the thread holding it
    pending_calls,       \* self.pending_calls: entries [id, owner]; owner's call holds
                         \* the Event and response_data the entry refers to
    calls,               \* per caller: position in call_worker, its Event and response_data
    inbox,               \* envelopes delivered on response_stream, not yet read
    delivered,           \* number of envelopes the hub has delivered
    nextId,              \* number of uuid4() values drawn
    mainPc,              \* position of the main thread
    genPc,               \* position of the sender generator
    recvPc,              \* position of the receiver thread
    cur,                 \* the envelope whose handler the receiver thread is running
    replied,             \* history: [id, msg, how]: RESPONSE msg was enqueued in answer to
                         \* the inbound envelope id
    dropped              \* history: [id, rid, pending]: RESPONSE id, carrying
                         \* request_id rid, matched no entry when pending_calls
                         \* held the ids `pending`

vars == <<variant, clock, pending_lock, threads, clients, replies, running, channel, queue_created, send_queue, sent,
          capability_handlers, pending_calls, calls, inbox, delivered, nextId,
          mainPc, genPc, recvPc, cur, replied, dropped>>

-----------------------------------------------------------------------------
\* Structured values (Python dicts) and their JSON text.

Dict(status, error, data) == [status |-> status, error |-> error, data |-> data]
None == Dict("", "", "")

\* json.dumps: the text of a structured value.
json_dumps(v) == [text |-> "json", v |-> v]
\* Text that json.loads rejects.
BadText == [text |-> "bad", v |-> None]
\* json.loads succeeds on the text.
json_ok(content) == content.text = "json"
\* json.loads(content) when it succeeds.
json_loads(content) == content.v

\* The reply the peer w2 computes for the CALL envelope with id `id`.
PeerPayload(id) == Dict("success", "", id)

\* The payload of a peer that answers a call with an error response, as
\* _process_message of the peer builds it.
PeerError(id) == Dict("failed", "peer error", id)

\* Kinds of reply a peer gives: "ok" a success payload, "bad" content that is
\* not JSON, "error" an error response.
OkReplies == {"ok"}
PlainReplies == {"ok", "bad"}
ErrorReplies == {"ok", "error"}

\* hub_pb2.Message(...): metadata is a map<string,string>; a key that is not
\* set reads as '' (metadata.get(key, '')).
Metadata(request_id, status, capability) ==
    [request_id |-> request_id, status |-> status, capability |-> capability]

Message(type, id, from, to, chan, content, metadata) ==
    [type |-> type, id |-> id, from |-> from, to |-> to, channel |-> chan,
     content |-> content, metadata |-> metadata]

NoMsg == Message("", "", "", "", "", BadText, Metadata("", "", ""))

\* str(uuid.uuid4()): the n-th value drawn; uuid4 values do not repeat.
uuid4(n) == "c" \o ToString(n)

\* Ids the hub's clients give the envelopes they send to this worker.
InboundId(n) == "r" \o ToString(n)

-----------------------------------------------------------------------------
\* Capability registry.

\* The capabilities register_capabilities() / load_plugins() / process_message
\* know: "hello" answers locally, "composite_task" calls another worker.
RegisteredNames == {"hello", "composite_task"}
Channels == RegisteredNames \cup {"nope"}

\* The keys of the registry dicts.
RegistryNames(reg) == {e.name : e \in reg}

\* add_capability: self.capability_handlers[name] = handler and
\* self.capabilities[name] = {...}: two dict stores under the same key.
add_capability(reg, name, handler, description) ==
    {e \in reg : e.name # name}
        \cup {[name |-> name, handler |-> handler, description |-> description]}

\* ExampleWorker.register_capabilities (analyze_image makes no call and is
\* served like hello; it is left out).
register_capabilities ==
    add_capability(
        add_capability({}, "hello", "handle_hello", "Returns a hello message"),
        "composite_task", "handle_composite_task",
        "Demo: Calls Java worker for file info")

\* _process_message's lookup: `channel not in self.capability_handlers`.
\* Mutation: every capability name is taken as registered.
AnyCapability(chan) == chan = chan

KnownCapability(chan) == chan \in RegistryNames(capability_handlers)

\* SimpleWorker's handle_* methods, which the deepapp_sdk Worker looks up with
\* getattr(self, f'handle_{capability}') (echo and process_file make no call and
\* are served like hello; they are left out).
get_capabilities == add_capability({}, "hello", "handle_hello", "Returns a hello message")

\* The capabilities the worker has once it is set up.
LoadedCapabilities ==
    IF variant = Deepapp THEN get_capabilities ELSE register_capabilities

-----------------------------------------------------------------------------
\* State of one call_worker invocation.

\* pc: position in call_worker; id: request_id; event, response, error: the
\* Event and response_data; outcome, result: how the call ended. History:
\* arrived (a handler's call: the reply was on the inbound stream when the
\* wait timed out) and
\* by (the id of the RESPONSE envelope that last resolved the call).
NewCall == [pc |-> "idle", id |-> "", event |-> FALSE, response |-> None,
            error |-> "", outcome |-> "none", result |-> None, arrived |-> FALSE,
            by |-> ""]

\* What a client of the hub may send this worker: a request or a call for any
\* capability name, a request whose content is not JSON, a DIRECT envelope.
Shape(type, chan, content) == [type |-> type, channel |-> chan, content |-> content]
Params == json_dumps(Dict("", "", "params"))
RequestShapes ==
    {Shape(t, ch, Params) : t \in {"REQUEST", "WORKER_CALL"}, ch \in Channels}
    \cup {Shape("REQUEST", "hello", BadText), Shape("DIRECT", "hello", Params)}
HelloOnly == {Shape("REQUEST", "hello", Params)}
\* Well-formed requests and calls for the capabilities the worker registers.
RegisteredShapes ==
    {Shape(t, ch, Params) : t \in {"REQUEST", "WORKER_CALL"}, ch \in RegisteredNames}

TypeOK ==
    /\ variant \in Variants \cup {Deepapp} \cup V2Variants
    /\ threads \subseteq Threads
    /\ clients \subseteq RequestShapes
    /\ replies \in {OkReplies, PlainReplies, ErrorReplies}
    /\ clock \in {"fine", "coarse"}
    /\ running \in BOOLEAN
    /\ pending_lock \in LockHolders
    /\ channel \in {"none", "open", "closed"}
    /\ queue_created \in BOOLEAN
    /\ RegistryNames(capability_handlers) \subseteq Channels
    /\ \A e \in pending_calls : e.owner \in Callers
    /\ \A c \in Callers :
         calls[c].pc \in {"idle", "checked", "registered", "waiting", "expired", "done"}
    /\ \A a \in replied : a.msg.type \in {"RESPONSE", "DIRECT"}
    /\ \A d \in dropped : d.rid \notin d.pending
    /\ delivered \in 0..MaxInbound
    /\ nextId \in 0..(MaxCalls + MaxInbound)
    /\ mainPc \in {"start", "connected", "set", "streaming", "loop", "stopped"}
    /\ genPc \in {"none", "reg", "test", "get", "exited"}
    /\ recvPc \in {"none", "loop", "handler", "resolving", "exited"}

Init ==
    /\ variant \in Variants
    /\ threads \in {{}, {"t1"}, {"t1", "t2"}}
    /\ clients \in {RequestShapes, RegisteredShapes, HelloOnly}
    /\ replies \in {OkReplies, PlainReplies, ErrorReplies}
    /\ clock \in {"fine", "coarse"}
    /\ running = FALSE
    /\ pending_lock = "free"
    /\ channel = "none"
    /\ queue_created = (variant = "sdk")
    /\ send_queue = <<>>
    /\ sent = <<>>
    /\ capability_handlers = {}
    /\ pending_calls = {}
    /\ calls = [c \in Callers |-> NewCall]
    /\ inbox = <<>>
    /\ delivered = 0
    /\ nextId = 0
    /\ mainPc = "start"
    /\ genPc = "none"
    /\ recvPc = "none"
    /\ cur = NoMsg
    /\ replied = {}
    /\ dropped = {}

-----------------------------------------------------------------------------
\* The correlation table: self.pending_calls, a dict keyed by request id.

PendingIds == {e.id : e \in pending_calls}

\* self.pending_calls[request_id] = {...}: a dict store replaces the key.
PendingPut(p, id, c) == {e \in p : e.id # id} \cup {[id |-> id, owner |-> c]}

\* self.pending_calls.pop(request_id, None) / del self.pending_calls[request_id]
PendingPop(p, id) == {e \in p : e.id # id}

\* Mutation: the resolver takes an entry of the table whatever its key.
PendingOwnerAnyEntry(p, id) == (CHOOSE e \in p : TRUE).owner

\* call_info = self.pending_calls[request_id]
PendingOwner(p, id) == (CHOOSE e \in p : e.id = id).owner

\* `if not self.running` (WorkerSDK), `if not self.send_queue` (PluginWorker),
\* `if not hasattr(self, 'send_queue')` (PythonWorker).
Connected == IF variant = "sdk" THEN running ELSE queue_created

\* The CALL envelope call_worker builds.
CallMsg(id, capability) ==
    Message("WORKER_CALL", id, WorkerId, TargetWorker, capability,
            Params, Metadata("", "", capability))

\* The composite handler reaches its call_worker call: PythonWorker's
\* handle_composite_task parses msg.content itself first and returns an error
\* dict when that fails.
HandlerCalls(msg) ==
    /\ msg.channel = "composite_task"
    /\ variant # Deepapp
    /\ variant = "grpc" => json_ok(msg.content)

\* The handler's own call is made from inside the running handler, once.
\* Threads are interchangeable: "t2" starts calling after "t1" has.
MayCall(c) ==
    /\ calls[c].pc = "idle"
    /\ IF c = Handler
       THEN recvPc = "handler" /\ HandlerCalls(cur)
       ELSE /\ c \in threads
            /\ nextId < MaxCalls
            /\ c = "t2" => calls["t1"].pc # "idle"

\* call_worker, the connection check: RuntimeError when not connected; else
\* uuid4() and the CALL envelope.
CallCheck(c) ==
    /\ MayCall(c)
    /\ IF ~Connected
       THEN /\ calls' = [calls EXCEPT ![c] =
                           [NewCall EXCEPT !.pc = "done", !.outcome = "notconnected"]]
            /\ UNCHANGED nextId
       ELSE /\ nextId' = nextId + 1
            /\ calls' = [calls EXCEPT ![c] =
                           [NewCall EXCEPT !.pc = "checked", !.id = uuid4(nextId + 1)]]
    /\ UNCHANGED <<variant, clock, pending_lock, threads, clients, replies, running, channel, queue_created, send_queue, sent,
                   capability_handlers, pending_calls, inbox, delivered,
                   mainPc, genPc, recvPc, cur, replied, dropped>>

\* Mutation: call_worker goes on to send without creating its entry.
CallRegisterSkipped(c) ==
    /\ calls[c].pc = "checked"
    /\ calls' = [calls EXCEPT ![c].pc = "registered"]
    /\ UNCHANGED <<variant, clock, pending_lock, threads, clients, replies, running, channel, queue_created,
                   send_queue, sent, capability_handlers, pending_calls, inbox,
                   delivered, nextId, mainPc, genPc, recvPc, cur, replied, dropped>>

\* call_worker, `with self.pending_lock: self.pending_calls[request_id] = {...}`
CallRegister(c) ==
    /\ calls[c].pc = "checked"
    /\ pending_lock = "free"
    /\ pending_calls' = PendingPut(pending_calls, calls[c].id, c)
    /\ calls' = [calls EXCEPT ![c].pc = "registered"]
    /\ UNCHANGED <<variant, clock, pending_lock, threads, clients, replies, running, channel, queue_created,
                   send_queue, sent, capability_handlers, inbox, delivered, nextId,
                   mainPc, genPc, recvPc, cur, replied, dropped>>

\* call_worker, `self.send_queue.put(call_msg)`; the caller then waits.
CallSend(c) ==
    /\ calls[c].pc = "registered"
    /\ send_queue' = Append(send_queue, CallMsg(calls[c].id, "read_file_info"))
    /\ calls' = [calls EXCEPT ![c].pc = "waiting"]
    /\ UNCHANGED <<variant, clock, pending_lock, threads, clients, replies, running, channel, queue_created, sent,
                   capability_handlers, pending_calls, inbox, delivered, nextId,
                   mainPc, genPc, recvPc, cur, replied, dropped>>

\* A parseable RESPONSE for call `id` is on the inbound stream, unread.
ReplyInInbox(id) ==
    \E i \in 1..Len(inbox) :
        /\ inbox[i].type = "RESPONSE"
        /\ inbox[i].metadata.request_id = id
        /\ json_ok(inbox[i].content)

\* What the woken caller does with response_data: raise on an error, else
\* return the response.
CallResult(call) ==
    IF call.error # ""
    THEN [call EXCEPT !.pc = "done", !.outcome = "raised"]
    ELSE [call EXCEPT !.pc = "done", !.outcome = "returned", !.result = call.response]

\* The entry a woken caller leaves in the table: PluginWorker and PythonWorker
\* pop their own entry under the lock, WorkerSDK does not touch the table.
PendingAfterWake(p, id) == IF variant = "sdk" THEN p ELSE PendingPop(p, id)

\* Mutation: the wait has no timeout; it ends only when the event is set.
CallWaitForever(c) ==
    /\ calls[c].pc = "waiting"
    /\ calls[c].event
    /\ (variant # "sdk") => pending_lock = "free"
    /\ pending_calls' = PendingAfterWake(pending_calls, calls[c].id)
    /\ calls' = [calls EXCEPT ![c] = CallResult(calls[c])]
    /\ UNCHANGED <<variant, clock, pending_lock, threads, clients, replies, running, channel,
                   queue_created, send_queue, sent, capability_handlers, inbox,
                   delivered, nextId, mainPc, genPc, recvPc, cur, replied, dropped>>

\* `if response_event.wait(timeout=timeout):` the wait ends. With the event
\* set it returns True and the caller returns the response or raises the
\* error; otherwise the timeout elapses and it returns False. For the call a
\* handler makes, `arrived` records whether the reply had been delivered on
\* the inbound stream by then.
CallWait(c) ==
    /\ calls[c].pc = "waiting"
    /\ (calls[c].event /\ variant # "sdk") => pending_lock = "free"
    /\ IF calls[c].event
       THEN /\ pending_calls' = PendingAfterWake(pending_calls, calls[c].id)
            /\ calls' = [calls EXCEPT ![c] = CallResult(calls[c])]
       ELSE /\ calls' = [calls EXCEPT ![c].pc = "expired",
                                      ![c].arrived = (c = Handler /\ ReplyInInbox(calls[c].id))]
            /\ UNCHANGED pending_calls
    /\ UNCHANGED <<variant, clock, pending_lock, threads, clients, replies, running, channel, queue_created, send_queue, sent,
                   capability_handlers, inbox, delivered, nextId,
                   mainPc, genPc, recvPc, cur, replied, dropped>>

\* Mutation: the timeout branch empties the table.
PendingAfterTimeoutAll(p, id) == {}

\* Mutation: the timeout branch raises without removing the entry.
PendingAfterTimeoutKept(p, id) == p

\* The timeout branch: the entry a timed-out caller leaves in the table.
PendingAfterTimeout(p, id) == PendingPop(p, id)

\* call_worker, timeout branch: pop the entry under the lock, raise TimeoutError.
CallCleanup(c) ==
    /\ calls[c].pc = "expired"
    /\ pending_lock = "free"
    /\ pending_calls' = PendingAfterTimeout(pending_calls, calls[c].id)
    /\ calls' = [calls EXCEPT ![c].pc = "done", ![c].outcome = "timeout"]
    /\ UNCHANGED <<variant, clock, pending_lock, threads, clients, replies, running, channel, queue_created, send_queue, sent,
                   capability_handlers, inbox, delivered, nextId,
                   mainPc, genPc, recvPc, cur, replied, dropped>>

-----------------------------------------------------------------------------
\* _handle_worker_call_response

\* Mutation: the resolver sets the event and leaves the entry in the table.
PendingAfterResponseKept(p, id) == p

\* The entry a resolved call leaves in the table: WorkerSDK deletes it,
\* PluginWorker and PythonWorker leave it for the woken caller.
PendingAfterResponse(p, id) == IF variant = "sdk" THEN PendingPop(p, id) ELSE p

\* Mutation: the except clause of the resolver only logs; a response that
\* does not parse leaves the call as it was.
ResolveParseErrorLost(call, msg) ==
    IF json_ok(msg.content)
    THEN [call EXCEPT !.response = json_loads(msg.content), !.event = TRUE,
                      !.by = msg.id]
    ELSE call

\* The response_data and Event of the matched call after the response.
Resolve(call, msg) ==
    IF json_ok(msg.content)
    THEN [call EXCEPT !.response = json_loads(msg.content), !.event = TRUE,
                      !.by = msg.id]
    ELSE [call EXCEPT !.error = "Failed to parse response", !.event = TRUE,
                      !.by = msg.id]

\* `request_id and request_id in self.pending_calls`
Matches(rid) == rid # "" /\ rid \in PendingIds

\* Mutation: a RESPONSE that matches no entry completes some pending call.
HandleResponseFallback(msg) ==
    LET rid == msg.metadata.request_id IN
    IF pending_calls # {}
    THEN LET e == IF Matches(rid)
                  THEN CHOOSE x \in pending_calls : x.id = rid
                  ELSE CHOOSE x \in pending_calls : TRUE IN
         /\ calls' = [calls EXCEPT ![e.owner] = Resolve(calls[e.owner], msg)]
         /\ pending_calls' = PendingAfterResponse(pending_calls, e.id)
         /\ UNCHANGED dropped
    ELSE /\ dropped' = dropped \cup {[id |-> msg.id, rid |-> rid, pending |-> PendingIds]}
         /\ UNCHANGED <<calls, pending_calls>>

HandleWorkerCallResponse(msg) ==
    LET rid == msg.metadata.request_id IN
    IF Matches(rid)
    THEN LET c == PendingOwner(pending_calls, rid) IN
         /\ calls' = [calls EXCEPT ![c] = Resolve(calls[c], msg)]
         /\ pending_calls' = PendingAfterResponse(pending_calls, rid)
         /\ UNCHANGED dropped
    ELSE /\ dropped' = dropped \cup {[id |-> msg.id, rid |-> rid, pending |-> PendingIds]}
         /\ UNCHANGED <<calls, pending_calls>>

-----------------------------------------------------------------------------
\* _process_message / process_message and the handlers.

\* The handler is invoked for msg: the capability is known and, in WorkerSDK,
\* json.loads(msg.content) succeeded before the handler is called. PluginWorker
\* swallows the parse error (params = {}); PythonWorker's handlers get msg itself.
InvokesHandler(msg) ==
    /\ KnownCapability(msg.channel)
    /\ variant = "sdk" => json_ok(msg.content)

\* The error dict _process_message returns without invoking a handler.
ProcessError(msg) ==
    IF ~KnownCapability(msg.channel)
    THEN Dict("failed", "Unknown capability", "")
    ELSE Dict("failed", "parse error", "")

\* How a handler invocation can end: PythonWorker's handlers catch everything.
HandlerOutcomes == IF variant = "grpc" THEN {"dict"} ELSE {"dict", "raise"}

\* The dict handle_composite_task returns, from how its call_worker call ended.
CompositeResult(call) ==
    IF call.outcome = "returned"
    THEN Dict("success", "", call.result.data)
    ELSE Dict("partial", call.outcome, "")

\* Mutation: the except clause is missing its error dict; a handler that
\* raised is reported as a success.
HandlerResultRaiseLost(msg, how, call) ==
    IF msg.channel = "composite_task"
    THEN IF HandlerCalls(msg) THEN CompositeResult(call)
         ELSE Dict("failed", "parse error", "")
    ELSE Dict("success", "", "hello")

\* The structured result of the handler invocation for msg.
HandlerResult(msg, how, call) ==
    IF how = "raise" THEN Dict("failed", "handler error", "")
    ELSE IF msg.channel = "composite_task"
         THEN IF HandlerCalls(msg) THEN CompositeResult(call)
              ELSE Dict("failed", "parse error", "")
         ELSE Dict("success", "", "hello")

\* metadata of the RESPONSE the receive loop builds for msg: WorkerSDK and
\* PluginWorker set request_id in the WORKER_CALL branch only (WorkerSDK also
\* status); PythonWorker sets nothing; the REQUEST branch sets nothing.
ResponseMetadata(msg) ==
    IF msg.type = "WORKER_CALL" /\ variant = "sdk" THEN Metadata(msg.id, "success", "")
    ELSE IF msg.type = "WORKER_CALL" /\ variant = "plugin" THEN Metadata(msg.id, "", "")
    ELSE Metadata("", "", "")

\* id=f"resp-{int(time.time() * 1000000)}": the n-th distinct clock reading.
ResponseId(n) == "resp" \o ToString(n)

\* The clock readings used for the responses created so far, and what
\* int(time.time() * 1000000) may read for the next one: a later value, or the
\* value it read for the previous response (the clock has a finite resolution
\* and nothing else enters the id).
StampsUsed == Cardinality({a.msg.id : a \in replied})
ClockReadings ==
    IF clock = "coarse"
    THEN {n \in {StampsUsed, StampsUsed + 1} : n > 0}
    ELSE {StampsUsed + 1}

\* type= of the envelope the receive loop builds: hub_pb2.RESPONSE in
\* WorkerSDK, PluginWorker and PythonWorker, hub_pb2.DIRECT in the deepapp_sdk
\* Worker.
ResponseType == IF variant = Deepapp THEN "DIRECT" ELSE "RESPONSE"

\* Mutation: the RESPONSE is addressed to the envelope's recipient.
ResponseMsgToRecipient(msg, content, n) ==
    Message(ResponseType, ResponseId(n), WorkerId, msg.to, msg.channel, content,
            ResponseMetadata(msg))

\* response_msg of the receive loop.
ResponseMsg(msg, content, n) ==
    Message(ResponseType, ResponseId(n), WorkerId, msg.from, msg.channel, content,
            ResponseMetadata(msg))

\* History record of self.send_queue.put(response_msg) in answer to msg.
\* how: the way the handler ended ("none": no handler was invoked).
Answer(msg, content, how, n) ==
    [id |-> msg.id, msg |-> ResponseMsg(msg, content, n), how |-> how]

-----------------------------------------------------------------------------
\* The receiver thread: _receive_loop / receive_loop.

\* One iteration of `for msg in response_stream` up to the handler invocation.
RecvRead ==
    /\ recvPc = "loop"
    /\ channel = "open"
    /\ inbox # <<>>
    /\ pending_lock # Receiver
    /\ (running /\ Head(inbox).type = "RESPONSE") => pending_lock = "free"
    /\ LET msg == Head(inbox) IN
       /\ inbox' = Tail(inbox)
       /\ IF ~running
          THEN \* break; finally: self.running = False
               /\ recvPc' = "exited"
               /\ UNCHANGED <<running, calls, pending_calls, send_queue, cur, replied, dropped>>
          ELSE IF msg.type = "RESPONSE" /\ variant # Deepapp
          THEN /\ HandleWorkerCallResponse(msg)
               /\ UNCHANGED <<running, recvPc, send_queue, cur, replied>>
          ELSE IF InvokesHandler(msg)
          THEN /\ recvPc' = "handler"
               /\ cur' = msg
               /\ UNCHANGED <<running, calls, pending_calls, send_queue, replied, dropped>>
          ELSE /\ \E n \in ClockReadings :
                    LET content == json_dumps(ProcessError(msg)) IN
                    /\ send_queue' = Append(send_queue, ResponseMsg(msg, content, n))
                    /\ replied' = replied \cup {Answer(msg, content, "none", n)}
               /\ UNCHANGED <<running, recvPc, calls, pending_calls, cur, dropped>>
    /\ UNCHANGED <<variant, clock, pending_lock, threads, clients, replies, channel, queue_created, sent, capability_handlers,
                   delivered, nextId, mainPc, genPc>>

\* Mutation: the RESPONSE is put at the front of the outbound queue.
HandlerReturnJumpsQueue ==
    /\ recvPc = "handler"
    /\ HandlerCalls(cur) => calls[Handler].pc = "done"
    /\ \E how \in HandlerOutcomes, n \in ClockReadings :
         LET content == json_dumps(HandlerResult(cur, how, calls[Handler])) IN
         /\ send_queue' = <<ResponseMsg(cur, content, n)>> \o send_queue
         /\ replied' = replied \cup {Answer(cur, content, how, n)}
    /\ calls' = [calls EXCEPT ![Handler] = NewCall]
    /\ recvPc' = "loop"
    /\ cur' = NoMsg
    /\ UNCHANGED <<variant, clock, pending_lock, threads, clients, replies, running, channel, queue_created, sent,
                   capability_handlers, pending_calls, inbox, delivered, nextId,
                   mainPc, genPc, dropped>>

\* The handler returns or raises; the receive loop enqueues the RESPONSE.
HandlerReturn ==
    /\ recvPc = "handler"
    /\ HandlerCalls(cur) => calls[Handler].pc = "done"
    /\ \E how \in HandlerOutcomes, n \in ClockReadings :
         LET content == json_dumps(HandlerResult(cur, how, calls[Handler])) IN
         /\ send_queue' = Append(send_queue, ResponseMsg(cur, content, n))
         /\ replied' = replied \cup {Answer(cur, content, how, n)}
    /\ calls' = [calls EXCEPT ![Handler] = NewCall]
    /\ recvPc' = "loop"
    /\ cur' = NoMsg
    /\ UNCHANGED <<variant, clock, pending_lock, threads, clients, replies, running, channel, queue_created, sent,
                   capability_handlers, pending_calls, inbox, delivered, nextId,
                   mainPc, genPc, dropped>>

\* Mutation: the receive loop ends without its finally clause.
RecvStreamEndKeepsRunning ==
    /\ recvPc = "loop"
    /\ pending_lock # Receiver
    /\ recvPc' = "exited"
    /\ UNCHANGED <<variant, clock, pending_lock, threads, clients, replies, running, channel,
                   queue_created, send_queue, sent, capability_handlers, pending_calls,
                   calls, inbox, delivered, nextId, mainPc, genPc, cur, replied, dropped>>

\* response_stream raises (the hub went away, or the channel was closed):
\* the loop ends; finally: self.running = False.
RecvStreamEnd ==
    /\ recvPc = "loop"
    /\ pending_lock # Receiver
    /\ recvPc' = "exited"
    /\ running' = FALSE
    /\ UNCHANGED <<variant, clock, pending_lock, threads, clients, replies, channel, queue_created, send_queue, sent,
                   capability_handlers, pending_calls, calls, inbox, delivered,
                   nextId, mainPc, genPc, cur, replied, dropped>>

-----------------------------------------------------------------------------
\* The hub: envelopes it relays to this worker once the worker is registered.

CallIdsSent == {sent[i].id : i \in {j \in 1..Len(sent) : sent[j].type = "WORKER_CALL"}}

\* What the hub may relay: what its clients send, and RESPONSE envelopes: the
\* peer's reply to a CALL this worker has sent (possibly repeated, possibly with
\* content that is not JSON), or one whose request_id is empty.
InboundEnvelopes ==
    {Message(sh.type, InboundId(delivered + 1), "caller", WorkerId, sh.channel,
             sh.content, Metadata("", "", "")) : sh \in clients}
    \cup
    {Message("RESPONSE", InboundId(delivered + 1), TargetWorker, WorkerId,
             "read_file_info", json_dumps(PeerPayload(rid)), Metadata(rid, "", "")) :
        rid \in {r \in CallIdsSent \cup {""} : "ok" \in replies}}
    \cup
    {Message("RESPONSE", InboundId(delivered + 1), TargetWorker, WorkerId,
             "read_file_info", BadText, Metadata(rid, "", "")) :
        rid \in {r \in CallIdsSent : "bad" \in replies}}
    \cup
    {Message("RESPONSE", InboundId(delivered + 1), TargetWorker, WorkerId,
             "read_file_info", json_dumps(PeerError(rid)), Metadata(rid, "", "")) :
        rid \in {r \in CallIdsSent : "error" \in replies}}

HubDeliver ==
    /\ delivered < MaxInbound
    /\ channel = "open"
    /\ Len(sent) >= 1
    /\ \E msg \in InboundEnvelopes : inbox' = Append(inbox, msg)
    /\ delivered' = delivered + 1
    /\ UNCHANGED <<variant, clock, pending_lock, threads, clients, replies, running, queue_created, channel, send_queue, sent,
                   capability_handlers, pending_calls, calls, nextId,
                   mainPc, genPc, recvPc, cur, replied, dropped>>

-----------------------------------------------------------------------------
\* The main thread: run() / connect_and_run() and stop().

\* The registry after the finally block: PluginWorker unloads its plugins.
RegistryAfterStop == IF variant = "plugin" THEN {} ELSE capability_handlers

\* Mutation: the failed wait for the channel is ignored and run() goes on.
RunConnectNoFailFast ==
    /\ mainPc = "start"
    /\ capability_handlers' = register_capabilities
    /\ queue_created' = TRUE
    /\ mainPc' = "connected"
    /\ \/ channel' = "open"
       \/ channel' = "closed"
    /\ UNCHANGED <<variant, clock, pending_lock, threads, clients, replies, running, send_queue,
                   sent, pending_calls, calls, inbox, delivered, nextId, genPc, recvPc,
                   cur, replied, dropped>>

\* register_capabilities() / load_plugins(), then the channel becomes ready
\* within 10 s or the wait raises and the finally block runs.
RunConnect ==
    /\ mainPc = "start"
    /\ \/ /\ capability_handlers' = LoadedCapabilities
          /\ channel' = "open"
          /\ queue_created' = TRUE
          /\ mainPc' = "connected"
          /\ UNCHANGED running
       \/ /\ channel' = "closed"
          /\ running' = FALSE
          /\ mainPc' = "stopped"
          /\ capability_handlers' = (IF variant = "plugin" THEN {} ELSE LoadedCapabilities)
          /\ UNCHANGED queue_created
    /\ UNCHANGED <<variant, clock, pending_lock, threads, clients, replies, send_queue, sent, pending_calls, calls, inbox,
                   delivered, nextId, genPc, recvPc, cur, replied, dropped>>

\* self.running = True: before stub.Connect in WorkerSDK, after it in the others.
RunSetRunning ==
    /\ mainPc = (IF variant = "sdk" THEN "connected" ELSE "streaming")
    /\ running' = TRUE
    /\ mainPc' = "set"
    /\ UNCHANGED <<variant, clock, pending_lock, threads, clients, replies, channel, queue_created, send_queue, sent,
                   capability_handlers, pending_calls, calls, inbox, delivered,
                   nextId, genPc, recvPc, cur, replied, dropped>>

\* response_stream = self.stub.Connect(self._request_generator())
RunConnectStream ==
    /\ mainPc = (IF variant = "sdk" THEN "set" ELSE "connected")
    /\ genPc' = "reg"
    /\ mainPc' = "streaming"
    /\ UNCHANGED <<variant, clock, pending_lock, threads, clients, replies, running, channel, queue_created, send_queue, sent,
                   capability_handlers, pending_calls, calls, inbox, delivered,
                   nextId, recvPc, cur, replied, dropped>>

\* receive_thread.start()
RunStartReceive ==
    /\ mainPc = (IF variant = "sdk" THEN "streaming" ELSE "set")
    /\ recvPc' = "loop"
    /\ mainPc' = "loop"
    /\ UNCHANGED <<variant, clock, pending_lock, threads, clients, replies, running, channel, queue_created, send_queue, sent,
                   capability_handlers, pending_calls, calls, inbox, delivered,
                   nextId, genPc, cur, replied, dropped>>

\* `while self.running: time.sleep(1)` ends (running is False, or Ctrl+C);
\* finally: stop(): self.running = False; self.channel.close().
MainStop ==
    /\ mainPc = "loop"
    /\ running' = FALSE
    /\ channel' = "closed"
    /\ capability_handlers' = RegistryAfterStop
    /\ mainPc' = "stopped"
    /\ UNCHANGED <<variant, clock, pending_lock, threads, clients, replies, queue_created, send_queue, sent, pending_calls, calls,
                   inbox, delivered, nextId, genPc, recvPc, cur, replied, dropped>>

-----------------------------------------------------------------------------
\* The sender: gRPC consuming _request_generator() / request_generator().

\* capabilities_list = list(self.capabilities.values())
Descriptors(reg) == {[name |-> e.name, description |-> e.description] : e \in reg}

\* registration_data of _send_registration.
RegistrationData(reg) == [worker_id |-> WorkerId, capabilities |-> Descriptors(reg)]

\* Mutation: the registration is put on the outbound queue, behind what is
\* already there, instead of being yielded first.
GenRegisterQueued ==
    /\ genPc = "reg"
    /\ channel = "open"
    /\ send_queue' = Append(send_queue,
           Message("REGISTER", "register", WorkerId, "hub", "system",
                   json_dumps(RegistrationData(capability_handlers)),
                   Metadata("", "", "")))
    /\ genPc' = "test"
    /\ UNCHANGED <<variant, clock, pending_lock, threads, clients, replies, running, channel, queue_created, sent,
                   capability_handlers, pending_calls, calls, inbox, delivered,
                   nextId, mainPc, recvPc, cur, replied, dropped>>

RegisterMsg ==
    Message("REGISTER", "register", WorkerId, "hub", "system",
            json_dumps(RegistrationData(capability_handlers)), Metadata("", "", ""))

\* yield self._send_registration()
GenRegister ==
    /\ genPc = "reg"
    /\ channel = "open"
    /\ sent' = Append(sent, RegisterMsg)
    /\ genPc' = "test"
    /\ UNCHANGED <<variant, clock, pending_lock, threads, clients, replies, running, channel, queue_created, send_queue,
                   capability_handlers, pending_calls, calls, inbox, delivered,
                   nextId, mainPc, recvPc, cur, replied, dropped>>

\* `while self.running:`
GenTest ==
    /\ genPc = "test"
    /\ genPc' = (IF running THEN "get" ELSE "exited")
    /\ UNCHANGED <<variant, clock, pending_lock, threads, clients, replies, running, channel, queue_created, send_queue, sent,
                   capability_handlers, pending_calls, calls, inbox, delivered,
                   nextId, mainPc, recvPc, cur, replied, dropped>>

\* Mutation: the sender takes the envelope enqueued last.
GenGetLast ==
    /\ genPc = "get"
    /\ channel = "open"
    /\ send_queue # <<>>
    /\ sent' = Append(sent, send_queue[Len(send_queue)])
    /\ send_queue' = SubSeq(send_queue, 1, Len(send_queue) - 1)
    /\ genPc' = "test"
    /\ UNCHANGED <<variant, clock, pending_lock, threads, clients, replies, running, channel, queue_created,
                   capability_handlers, pending_calls, calls, inbox, delivered,
                   nextId, mainPc, recvPc, cur, replied, dropped>>

\* msg = self.send_queue.get(block=True, timeout=1.0); yield msg
GenGet ==
    /\ genPc = "get"
    /\ channel = "open"
    /\ send_queue # <<>>
    /\ sent' = Append(sent, Head(send_queue))
    /\ send_queue' = Tail(send_queue)
    /\ genPc' = "test"
    /\ UNCHANGED <<variant, clock, pending_lock, threads, clients, replies, running, channel, queue_created,
                   capability_handlers, pending_calls, calls, inbox, delivered,
                   nextId, mainPc, recvPc, cur, replied, dropped>>

\* except queue.Empty: continue
GenEmpty ==
    /\ genPc = "get"
    /\ send_queue = <<>>
    /\ genPc' = "test"
    /\ UNCHANGED <<variant, clock, pending_lock, threads, clients, replies, running, channel, queue_created, send_queue, sent,
                   capability_handlers, pending_calls, calls, inbox, delivered,
                   nextId, mainPc, recvPc, cur, replied, dropped>>

-----------------------------------------------------------------------------
Next ==
    \/ \E c \in Callers : CallCheck(c)
    \/ \E c \in Callers : CallRegister(c)
    \/ \E c \in Callers : CallSend(c)
    \/ \E c \in Callers : CallWait(c)
    \/ \E c \in Callers : CallCleanup(c)
    \/ RecvRead
    \/ HandlerReturn
    \/ RecvStreamEnd
    \/ HubDeliver
    \/ RunConnect
    \/ RunSetRunning
    \/ RunConnectStream
    \/ RunStartReceive
    \/ MainStop
    \/ GenRegister
    \/ GenTest
    \/ GenGet
    \/ GenEmpty

Spec == Init /\ [][Next]_vars

\* One worker class and one environment at a time: the worker serving its
\* clients' requests, all of them (Serve) or those for capabilities it has
\* (Ask), where only handlers use call_worker; one application thread using
\* call_worker (Call), or two (Calls), while clients send hello requests.
InitServe == Init /\ clock = "fine" /\ threads = {} /\ clients = RequestShapes /\ replies = PlainReplies
InitAsk == Init /\ clock = "fine" /\ threads = {} /\ clients = RegisteredShapes /\ replies = PlainReplies
InitCall == Init /\ clock = "fine" /\ threads = {"t1"} /\ clients = HelloOnly /\ replies = PlainReplies
InitCalls == Init /\ clock = "fine" /\ threads = {"t1", "t2"} /\ clients = HelloOnly /\ replies = PlainReplies
\* One application thread calling a peer that may answer with an error response.
InitCallErr == Init /\ clock = "fine" /\ threads = {"t1"} /\ clients = HelloOnly /\ replies = ErrorReplies

\* Requests for the registered capabilities, served on a platform whose clock
\* may read the same microsecond twice.
InitCoarse ==
    Init /\ clock = "coarse" /\ threads = {} /\ clients = RegisteredShapes
         /\ replies = PlainReplies

\* Two application threads calling a peer that answers well or not at all.
InitCallsOk ==
    Init /\ clock = "fine" /\ threads = {"t1", "t2"} /\ clients = HelloOnly
         /\ replies = OkReplies

InitSdk == InitServe /\ variant = "sdk"
InitSdkCallsOk == InitCallsOk /\ variant = "sdk"
InitSdkCoarse == InitCoarse /\ variant = "sdk"
InitSdkAsk == InitAsk /\ variant = "sdk"
InitSdkCall == InitCall /\ variant = "sdk"
InitSdkCalls == InitCalls /\ variant = "sdk"
InitSdkCallErr == InitCallErr /\ variant = "sdk"
InitPlugin == InitServe /\ variant = "plugin"
InitPluginCall == InitCall /\ variant = "plugin"
InitGrpc == InitServe /\ variant = "grpc"
InitGrpcCall == InitCall /\ variant = "grpc"

SpecSdk == InitSdk /\ [][Next]_vars
SpecSdkCallsOk == InitSdkCallsOk /\ [][Next]_vars
SpecSdkCoarse == InitSdkCoarse /\ [][Next]_vars
SpecSdkAsk == InitSdkAsk /\ [][Next]_vars
SpecSdkCall == InitSdkCall /\ [][Next]_vars
SpecSdkCalls == InitSdkCalls /\ [][Next]_vars
SpecSdkCallErr == InitSdkCallErr /\ [][Next]_vars
SpecPlugin == InitPlugin /\ [][Next]_vars
SpecPluginCall == InitPluginCall /\ [][Next]_vars
SpecGrpc == InitGrpc /\ [][Next]_vars
SpecGrpcCall == InitGrpcCall /\ [][Next]_vars

\* The scheduling the code guarantees while the worker serves requests: the
\* receiver thread keeps iterating, a running handler goes on to its return,
\* and a wait(timeout) ends.
FairSdk ==
    /\ SpecSdkAsk
    /\ WF_vars(RecvRead)
    /\ WF_vars(HandlerReturn)
    /\ WF_vars(CallCheck(Handler))
    /\ WF_vars(CallRegister(Handler))
    /\ WF_vars(CallSend(Handler))
    /\ WF_vars(CallWait(Handler))
    /\ WF_vars(CallCleanup(Handler))

\* The registration phase alone: a subclass's register_capabilities() makes
\* any sequence of add_capability calls before run() connects.
HandlerNames == {"handle_hello", "handle_composite_task"}
Descriptions == {"Returns a hello message", "Demo: Calls Java worker for file info"}

\* self.add_capability(name, handler, description)
AddCapability(name, handler, description) ==
    /\ mainPc = "start"
    /\ capability_handlers' =
           add_capability(capability_handlers, name, handler, description)
    /\ UNCHANGED <<variant, clock, pending_lock, threads, clients, replies, running, channel, queue_created,
                   send_queue, sent, pending_calls, calls, inbox, delivered,
                   nextId, mainPc, genPc, recvPc, cur, replied, dropped>>

NextRegistry ==
    \E name \in Channels, handler \in HandlerNames, description \in Descriptions :
        AddCapability(name, handler, description)

SpecRegistry == InitSdk /\ [][NextRegistry]_vars

-----------------------------------------------------------------------------
\* pending_lock at statement granularity: `with self.pending_lock:` is entered
\* in one step; the table operation and the release are the thread's next.

\* Thread th stands at a `with self.pending_lock:` statement: call_worker
\* about to create or to pop its entry, the receive loop with a RESPONSE read.
WantsLock(th) ==
    IF th = Receiver
    THEN /\ recvPc = "loop" /\ channel = "open" /\ running
         /\ inbox # <<>> /\ Head(inbox).type = "RESPONSE"
    ELSE calls[th].pc \in {"checked", "expired"}

\* Lock.__enter__: blocks until the lock is free.
LockAcquire(th) ==
    /\ pending_lock = "free"
    /\ WantsLock(th)
    /\ pending_lock' = th
    /\ UNCHANGED <<variant, clock, threads, clients, replies, running, channel, queue_created,
                   send_queue, sent, capability_handlers, pending_calls, calls, inbox,
                   delivered, nextId, mainPc, genPc, recvPc, cur, replied, dropped>>

\* Mutation: call_worker keeps the lock after creating its entry.
HeldCallRegisterKeepsLock(c) ==
    /\ pending_lock = c
    /\ calls[c].pc = "checked"
    /\ pending_calls' = PendingPut(pending_calls, calls[c].id, c)
    /\ calls' = [calls EXCEPT ![c].pc = "registered"]
    /\ UNCHANGED <<variant, clock, pending_lock, threads, clients, replies, running, channel,
                   queue_created, send_queue, sent, capability_handlers, inbox,
                   delivered, nextId, mainPc, genPc, recvPc, cur, replied, dropped>>

\* self.pending_calls[request_id] = {...} inside the with block; the block ends.
HeldCallRegister(c) ==
    /\ pending_lock = c
    /\ calls[c].pc = "checked"
    /\ pending_calls' = PendingPut(pending_calls, calls[c].id, c)
    /\ calls' = [calls EXCEPT ![c].pc = "registered"]
    /\ pending_lock' = "free"
    /\ UNCHANGED <<variant, clock, threads, clients, replies, running, channel, queue_created,
                   send_queue, sent, capability_handlers, inbox, delivered, nextId,
                   mainPc, genPc, recvPc, cur, replied, dropped>>

\* self.pending_calls.pop(request_id, None) inside the with block of the
\* timeout branch; the block ends and TimeoutError is raised.
HeldCallCleanup(c) ==
    /\ pending_lock = c
    /\ calls[c].pc = "expired"
    /\ pending_calls' = PendingAfterTimeout(pending_calls, calls[c].id)
    /\ calls' = [calls EXCEPT ![c].pc = "done", ![c].outcome = "timeout"]
    /\ pending_lock' = "free"
    /\ UNCHANGED <<variant, clock, threads, clients, replies, running, channel, queue_created,
                   send_queue, sent, capability_handlers, inbox, delivered, nextId,
                   mainPc, genPc, recvPc, cur, replied, dropped>>

\* The body of _handle_worker_call_response's with block; the block ends and
\* the receive loop continues.
HeldResponse ==
    /\ pending_lock = Receiver
    /\ HandleWorkerCallResponse(Head(inbox))
    /\ inbox' = Tail(inbox)
    /\ pending_lock' = "free"
    /\ UNCHANGED <<variant, clock, threads, clients, replies, running, channel, queue_created,
                   send_queue, sent, capability_handlers, delivered, nextId,
                   mainPc, genPc, recvPc, cur, replied>>

\* An iteration of the receive loop that takes no lock: a request, or the
\* break when running is False.
RecvRequest == ~WantsLock(Receiver) /\ RecvRead

NextLock ==
    \/ \E c \in Callers : CallCheck(c)
    \/ \E th \in Callers \cup {Receiver} : LockAcquire(th)
    \/ \E c \in Callers : HeldCallRegister(c)
    \/ \E c \in Callers : CallSend(c)
    \/ \E c \in Callers : CallWait(c)
    \/ \E c \in Callers : HeldCallCleanup(c)
    \/ HeldResponse
    \/ RecvRequest
    \/ HandlerReturn
    \/ RecvStreamEnd
    \/ HubDeliver
    \/ RunConnect
    \/ RunSetRunning
    \/ RunConnectStream
    \/ RunStartReceive
    \/ MainStop
    \/ GenRegister
    \/ GenTest
    \/ GenGet
    \/ GenEmpty

\* WorkerSDK with one application thread calling, the lock at statement
\* granularity.
SpecLock == InitSdkCall /\ [][NextLock]_vars

-----------------------------------------------------------------------------
\* call_worker when uuid4() is taken for what it is, a random draw: nothing in
\* call_worker compares the value drawn with the keys already in pending_calls.

CallCheckAnyId(c) ==
    /\ MayCall(c)
    /\ IF ~Connected
       THEN /\ calls' = [calls EXCEPT ![c] =
                           [NewCall EXCEPT !.pc = "done", !.outcome = "notconnected"]]
            /\ UNCHANGED nextId
       ELSE /\ nextId' = nextId + 1
            /\ \E n \in 1..MaxCalls :
                  calls' = [calls EXCEPT ![c] =
                              [NewCall EXCEPT !.pc = "checked", !.id = uuid4(n)]]
    /\ UNCHANGED <<variant, clock, pending_lock, threads, clients, replies, running, channel,
                   queue_created, send_queue, sent, capability_handlers, pending_calls,
                   inbox, delivered, mainPc, genPc, recvPc, cur, replied, dropped>>

NextAnyId ==
    \/ \E c \in Callers : CallCheckAnyId(c)
    \/ \E c \in Callers : CallRegister(c)
    \/ \E c \in Callers : CallSend(c)
    \/ \E c \in Callers : CallWait(c)
    \/ \E c \in Callers : CallCleanup(c)
    \/ RecvRead
    \/ HandlerReturn
    \/ RecvStreamEnd
    \/ HubDeliver
    \/ RunConnect
    \/ RunSetRunning
    \/ RunConnectStream
    \/ RunStartReceive
    \/ MainStop
    \/ GenRegister
    \/ GenTest
    \/ GenGet
    \/ GenEmpty

\* WorkerSDK, two application threads calling, ids drawn at random.
SpecAnyId == InitSdkCalls /\ [][NextAnyId]_vars

\* The main thread's `while self.running: time.sleep(1)` ends within a second
\* of running becoming False, and the finally block then runs stop().
FairSdkStop == SpecSdk /\ WF_vars(MainStop /\ ~running)

\* The three worker classes serving the hub's clients.
SpecServe == InitServe /\ [][Next]_vars

\* The three worker classes, one application thread calling.
SpecCall == InitCall /\ [][Next]_vars

\* The thread inside call_worker keeps being scheduled: the lock is free when
\* it is not inside a table operation, Queue.put on the unbounded queue does
\* not block, and Event.wait(timeout) returns when the event is set or the
\* timeout has elapsed.
FairCall ==
    /\ SpecCall
    /\ \A c \in Threads :
          /\ WF_vars(CallRegister(c))
          /\ WF_vars(CallSend(c))
          /\ WF_vars(CallWait(c))
          /\ WF_vars(CallCleanup(c))

\* The scheduling the code guarantees for the outbound side: run() goes on to
\* Connect and to starting the receiver thread, and gRPC keeps consuming the
\* request generator.
FairSdkCall ==
    /\ SpecSdkCall
    /\ WF_vars(RunSetRunning)
    /\ WF_vars(RunConnectStream)
    /\ WF_vars(RunStartReceive)
    /\ WF_vars(GenRegister)
    /\ WF_vars(GenTest)
    /\ WF_vars(GenGet)
    /\ WF_vars(GenEmpty)

-----------------------------------------------------------------------------
\* Properties.

InboundIds == {InboundId(n) : n \in 1..MaxInbound}

\* The call of caller c is registered and has not returned.
Outstanding(c) == calls[c].pc \in {"waiting", "expired"}

\* C1: when a handler calls call_worker and the peer's RESPONSE with the
\* generated request_id is delivered on the inbound stream before the timeout
\* elapses, call_worker returns the payload and does not time out.
C1_HandlerCallReturnsDeliveredReply ==
    (calls[Handler].pc \in {"expired", "done"} /\ calls[Handler].arrived)
        => calls[Handler].outcome = "returned"

\* C2: a call_worker invocation ends in exactly one of two ways: a response
\* completes the pending call and the caller returns it, or the caller gets
\* the timeout error; a call that ends with the timeout error has not had its
\* pending entry consumed by a response.
C2_TimeoutOrDeliveryNotBoth ==
    \A c \in Callers :
        (calls[c].pc = "done" /\ calls[c].outcome = "timeout") => calls[c].by = ""

\* C3: once the channel has been released, no call_worker invocation is still
\* blocked on an unresolved pending call: each was resolved with the
\* connection-closed error before the release.
C3_PendingResolvedBeforeRelease ==
    channel = "closed" =>
        \A c \in Callers : calls[c].pc = "waiting" => calls[c].event

\* The RESPONSE enqueued in answer to inbound envelope id carries a
\* structured result and is addressed to the envelope's sender.
Answered(id) ==
    \E a \in replied :
        /\ a.id = id
        /\ a.msg.type = "RESPONSE"
        /\ a.msg.to = "caller"
        /\ json_ok(a.msg.content)
        /\ json_loads(a.msg.content).status \in {"success", "partial", "failed"}

\* The receiver thread is about to read REQUEST or WORKER_CALL envelope id,
\* which names a registered capability.
RequestNext(id) ==
    /\ recvPc = "loop"
    /\ running
    /\ inbox # <<>>
    /\ Head(inbox).id = id
    /\ Head(inbox).type \in {"REQUEST", "WORKER_CALL"}
    /\ KnownCapability(Head(inbox).channel)

\* C4: for every inbound REQUEST or WORKER_CALL envelope that names a
\* registered capability, a RESPONSE carrying the handler's structured result
\* and addressed to the envelope's sender is eventually put on the outbound
\* queue (unless the connection is shut down before the envelope is read).
C4_RequestEventuallyAnswered ==
    \A id \in InboundIds :
        (RequestNext(id) \/ (recvPc = "handler" /\ cur.id = id))
            ~> (Answered(id) \/ channel = "closed" \/ recvPc = "exited")

\* C4 witness: a WORKER_CALL for a registered capability has been answered.
C4_Witness ==
    \E a \in replied :
        /\ Answered(a.id)
        /\ a.msg.channel = "hello"
        /\ a.msg.metadata.request_id = a.id
        /\ json_loads(a.msg.content) = Dict("success", "", "hello")

\* C5: every RESPONSE the worker enqueues in answer to an inbound envelope,
\* REQUEST or WORKER_CALL, has metadata.request_id equal to the id of the
\* envelope it answers.
C5_ResponseCarriesRequestId ==
    \A a \in replied : a.msg.metadata.request_id = a.id

\* C6: two concurrent call_worker invocations are registered under distinct
\* ids, and each caller that returns gets the payload of the response to its
\* own call, in whatever order the responses arrive.
C6_ConcurrentCallsRouted ==
    /\ \A a, b \in Callers :
         (a # b /\ Outstanding(a) /\ Outstanding(b)) => calls[a].id # calls[b].id
    /\ \A c \in Callers :
         calls[c].outcome = "returned" => calls[c].result = PeerPayload(calls[c].id)

\* C6 witness: both calls were outstanding, the response to the second call
\* was delivered first, and both callers returned.
C6_Witness ==
    /\ calls["t1"].outcome = "returned"
    /\ calls["t2"].outcome = "returned"
    /\ calls["t2"].by = InboundId(1)
    /\ calls["t1"].by = InboundId(2)
    /\ calls["t1"].id # calls["t2"].id

\* C7: a call_worker invocation that no RESPONSE resolved ends with the
\* timeout error, and once it has ended that way pending_calls holds no entry
\* for its id.
C7_TimeoutLeavesNoEntry ==
    \A c \in Callers :
        /\ (calls[c].pc = "done" /\ calls[c].id # "" /\ calls[c].by = "")
               => calls[c].outcome = "timeout"
        /\ (calls[c].pc = "done" /\ calls[c].outcome = "timeout")
               => calls[c].id \notin PendingIds

\* C7 witness: a call timed out with no response having arrived for it.
C7_Witness ==
    /\ calls["t1"].pc = "done"
    /\ calls["t1"].outcome = "timeout"
    /\ calls["t1"].by = ""
    /\ calls["t1"].id \in CallIdsSent
    /\ dropped = {}
    /\ calls["t1"].id \notin PendingIds

\* The receiver thread reads a RESPONSE whose request_id is empty or matches
\* no entry of pending_calls.
ReadsUnmatchedResponse ==
    /\ recvPc = "loop"
    /\ running
    /\ inbox # <<>>
    /\ inbox' = Tail(inbox)
    /\ Head(inbox).type = "RESPONSE"
    /\ ~Matches(Head(inbox).metadata.request_id)

\* C8: reading a RESPONSE whose request_id is empty or matches no entry of
\* pending_calls raises no error (the receive loop goes on), enqueues nothing
\* and leaves every pending call's entry, signal and result slot unchanged.
C8_UnmatchedResponseDiscarded ==
    [][ReadsUnmatchedResponse =>
           /\ UNCHANGED <<pending_calls, calls, send_queue, sent, running, replied>>
           /\ recvPc' = "loop"]_vars

\* C8 witness: a RESPONSE with a non-empty unmatched request_id (it arrived
\* after its call had timed out) and one with an empty request_id were
\* discarded; the latter while a call was pending.
C8_Witness ==
    /\ \E d \in dropped : d.rid = "" /\ d.pending # {}
    /\ \E d \in dropped : d.rid # "" /\ d.rid = calls["t1"].id
    /\ recvPc = "loop"

\* C9: once a RESPONSE for a request_id has been delivered to its waiter (the
\* Event is set), a second RESPONSE with the same request_id cannot change the
\* result call_worker returns: what the woken caller will return or raise
\* stays as it is until the caller has returned.
C9_SecondResponseChangesNothing ==
    [][\A c \in Callers :
          (calls[c].pc = "waiting" /\ calls[c].event)
              => /\ CallResult(calls'[c]).outcome = CallResult(calls[c]).outcome
                 /\ CallResult(calls'[c]).result = CallResult(calls[c]).result]_vars

\* C10: while a handler invocation is executing, the receiver loop keeps
\* reading and dispatching the inbound envelopes that follow.
C10_ReceiverNotBlockedByHandler ==
    (recvPc = "handler" /\ running /\ channel = "open" /\ inbox # <<>>)
        => ENABLED RecvRead

\* C11: when the target worker answers a call with an error response,
\* call_worker raises instead of returning normally: it returns a value only
\* when a successful payload was delivered.
C11_ErrorResponseRaises ==
    \A c \in Callers :
        calls[c].outcome = "returned" => calls[c].result.status # "failed"

\* C12: the first envelope written to the channel is the REGISTER envelope,
\* addressed to "hub" and listing the worker id and every registered
\* capability; no envelope written after it is a REGISTER, and no RESPONSE or
\* CALL is written before it, even one enqueued before the sender started.
C12_RegisterFirst ==
    /\ \A i \in 1..Len(sent) : (i = 1) <=> (sent[i].type = "REGISTER")
    /\ sent # <<>> =>
          /\ sent[1].to = "hub"
          /\ json_ok(sent[1].content)
          /\ json_loads(sent[1].content).worker_id = WorkerId
          /\ {d.name : d \in json_loads(sent[1].content).capabilities} = RegisteredNames

\* C12 witness: the sender has written its first envelope, the REGISTER,
\* while a CALL was already waiting on the outbound queue, and the receiver
\* thread has not been started yet.
C12_Witness ==
    /\ sent = <<RegisterMsg>>
    /\ send_queue # <<>>
    /\ Head(send_queue).type = "WORKER_CALL"
    /\ Head(send_queue).id = calls["t1"].id
    /\ recvPc = "none"

\* The envelopes written to the channel after the registration.
Wire == IF sent = <<>> THEN <<>> ELSE Tail(sent)

IsPrefix(s, t) == Len(s) <= Len(t) /\ \A i \in 1..Len(s) : s[i] = t[i]

\* C13: after registration the sender writes envelopes in exactly the order
\* they were put on the outbound queue: what has been written followed by
\* what is queued only ever grows at its end, so of two envelopes the one
\* enqueued first is written first.
C13_SenderFifo ==
    [][IsPrefix(Wire \o send_queue, Wire' \o send_queue')]_vars

\* C13 witness: the receiver thread answered WORKER_CALL r1 and then r2, and
\* both responses have been written, the one to r1 first.
C13_Witness ==
    \E i, j \in 1..Len(sent) :
        /\ i < j
        /\ sent[i].type = "RESPONSE" /\ sent[i].metadata.request_id = InboundId(1)
        /\ sent[j].type = "RESPONSE" /\ sent[j].metadata.request_id = InboundId(2)

\* The CALL of caller c is on the outbound queue.
CallQueued(c) == \E i \in 1..Len(send_queue) : send_queue[i].id = calls[c].id

\* C14: on shutdown the sender loop exits only after the outbound queue is
\* drained: an envelope that was on the queue while the worker was running
\* (enqueued before the stop signal) is eventually written to the channel.
C14_QueueDrainedOnShutdown ==
    \A c \in Threads :
        (running /\ calls[c].pc = "waiting" /\ CallQueued(c))
            ~> (calls[c].id \in CallIdsSent)

\* The worker has entered Closing: stop() has run or the receive loop has ended.
Closing == ~running /\ (mainPc = "stopped" \/ recvPc = "exited")

\* C15: once the worker has entered Closing, no new envelope is accepted onto
\* the outbound queue: neither call_worker nor the receive loop enqueues.
C15_NoEnqueueAfterClosing ==
    [][Closing => Len(send_queue') <= Len(send_queue)]_vars

\* The receive loop takes a REQUEST or WORKER_CALL for an unregistered name.
ReadsUnknownCapability ==
    /\ recvPc = "loop" /\ running /\ channel = "open"
    /\ inbox # <<>>
    /\ Head(inbox).type \in {"REQUEST", "WORKER_CALL"}
    /\ Head(inbox).channel \notin RegisteredNames
    /\ inbox' = Tail(inbox)

\* C16: for an inbound REQUEST or WORKER_CALL naming a capability that is not
\* registered, the worker enqueues a response whose payload has status failed
\* with an unknown-capability error, and no handler is invoked.
C16_UnknownCapabilityFails ==
    [][ReadsUnknownCapability =>
          /\ Len(send_queue') = Len(send_queue) + 1
          /\ LET r == send_queue'[Len(send_queue')] IN
             /\ r.type = "RESPONSE"
             /\ r.to = Head(inbox).from
             /\ json_ok(r.content)
             /\ json_loads(r.content).status = "failed"
             /\ json_loads(r.content).error = "Unknown capability"
          /\ recvPc' = "loop"
          /\ calls' = calls]_vars

\* C16 witness: the failed response to a request for the unregistered name
\* has been enqueued and written to the channel.
C16_Witness ==
    \E a \in replied :
        /\ a.msg.channel \notin RegisteredNames
        /\ json_loads(a.msg.content).error = "Unknown capability"
        /\ \E i \in 1..Len(sent) : sent[i] = a.msg

\* C17: if a handler raises, the exception is caught at the dispatch
\* boundary: the response enqueued for that request has status failed and
\* carries the error message, and the receive loop is back at reading the
\* stream, the worker still as running and as connected as it was.
C17_HandlerErrorAnswered ==
    [][\A a \in replied' \ replied :
          a.how = "raise" =>
              /\ a.id = cur.id
              /\ send_queue' = Append(send_queue, a.msg)
              /\ a.msg.to = cur.from
              /\ json_ok(a.msg.content)
              /\ json_loads(a.msg.content).status = "failed"
              /\ json_loads(a.msg.content).error = "handler error"
              /\ recvPc' = "loop"
              /\ running' = running
              /\ channel' = channel]_vars

\* C17 witness: the handler for request r1 raised and was answered, and the
\* receive loop went on to answer the next envelope r2.
C17_Witness ==
    /\ \E a \in replied : a.id = InboundId(1) /\ a.how = "raise"
    /\ \E b \in replied : b.id = InboundId(2) /\ b.how = "dict"

\* The receive loop takes a REQUEST or WORKER_CALL whose payload is not JSON.
ReadsUnparseable ==
    /\ recvPc = "loop" /\ running /\ channel = "open"
    /\ inbox # <<>>
    /\ Head(inbox).type \in {"REQUEST", "WORKER_CALL"}
    /\ ~json_ok(Head(inbox).content)
    /\ inbox' = Tail(inbox)

\* C18: an inbound REQUEST or WORKER_CALL whose payload cannot be parsed is
\* dropped: no handler is invoked for it, nothing is enqueued for it, and the
\* connection and the receive loop go on as they were.
C18_UnparseableDropped ==
    [][ReadsUnparseable =>
          /\ recvPc' = "loop"
          /\ send_queue' = send_queue
          /\ running' = running
          /\ channel' = channel]_vars

\* The receive loop takes a DIRECT envelope.
ReadsDirect ==
    /\ recvPc = "loop" /\ running /\ channel = "open"
    /\ inbox # <<>>
    /\ Head(inbox).type = "DIRECT"
    /\ inbox' = Tail(inbox)

\* C19: an inbound DIRECT envelope (no out-of-band listener is registered)
\* is ignored: it invokes no capability handler and causes no RESPONSE to be
\* enqueued.
C19_DirectIgnored ==
    [][ReadsDirect =>
          /\ recvPc' = "loop"
          /\ send_queue' = send_queue]_vars

\* C20: registering a capability under a name that is already registered
\* fails and leaves the handler and the descriptor registered under that name
\* unchanged: an entry of the registry is never replaced by a registration.
C20_DuplicateCapabilityRejected ==
    [][mainPc = "start" =>
          \A e \in capability_handlers : e \in capability_handlers']_vars

\* The receiver thread is alive: it can still look a handler up.
ReceiverAlive == recvPc \in {"loop", "handler"}

\* C21: once the connection is streaming, the capability registry is never
\* mutated: no entry is added, replaced or removed while a receive loop can
\* still look up a handler.
C21_RegistryFrozenWhileStreaming ==
    [][ReceiverAlive => capability_handlers' = capability_handlers]_vars

\* This step puts the CALL envelope of caller c on the outbound queue.
EnqueuesCall(c) ==
    send_queue' = Append(send_queue, CallMsg(calls[c].id, "read_file_info"))

\* A RESPONSE for the call of caller c is on the inbound stream or was read.
ResponseFor(c) ==
    \/ \E i \in 1..Len(inbox) :
          inbox[i].type = "RESPONSE" /\ inbox[i].metadata.request_id = calls[c].id
    \/ calls[c].event
    \/ \E d \in dropped : d.rid = calls[c].id

\* C22: the pending_calls entry of a call is created before its CALL envelope
\* is put on the outbound queue; so while a caller has not yet created its
\* entry its CALL is neither queued nor written, and no RESPONSE for it exists
\* to be processed.
C22_EntryBeforeEnqueue ==
    [][\A c \in Callers :
          /\ EnqueuesCall(c) => calls[c].id \in PendingIds
          /\ calls[c].pc = "checked" =>
                /\ ~CallQueued(c)
                /\ calls[c].id \notin CallIdsSent
                /\ ~ResponseFor(c)]_vars

\* C22 witness: with the receive loop running, the entry of t1's call is in
\* the table while its CALL has not yet been put on the queue.
C22_Witness ==
    /\ recvPc = "loop"
    /\ calls["t1"].pc = "registered"
    /\ calls["t1"].id \in PendingIds
    /\ ~CallQueued("t1")
    /\ calls["t1"].id \notin CallIdsSent

\* This step is the receive loop handling a RESPONSE it read.
HandlesResponse ==
    /\ inbox # <<>> /\ Head(inbox).type = "RESPONSE"
    /\ inbox' = Tail(inbox)
    /\ recvPc' = "loop"

\* C23: every read or write of pending_calls is made while holding
\* pending_lock, and the lock is held for one table operation only: the step
\* that uses the table releases it, and no thread holds it while it waits on
\* a call's completion signal (or while it is anywhere but at a table
\* operation).
C23_TableUnderLock ==
    [][/\ pending_calls' # pending_calls =>
              pending_lock # "free" /\ pending_lock' = "free"
       /\ HandlesResponse => pending_lock = Receiver /\ pending_lock' = "free"
       /\ \A c \in Callers :
              pending_lock' = c => calls'[c].pc \in {"checked", "expired"}
       /\ pending_lock' = Receiver => recvPc' = "loop"]_vars

\* C23 witness: t1 is blocked waiting for its response while the receive
\* loop holds the lock to resolve that very call.
C23_Witness ==
    /\ pending_lock = Receiver
    /\ calls["t1"].pc = "waiting"
    /\ ~calls["t1"].event
    /\ Head(inbox).metadata.request_id = calls["t1"].id

\* This step is a caller creating its entry in the table.
Registers(c) == calls[c].pc = "checked" /\ calls'[c].pc = "registered"

\* C24: registering a pending call under a correlation id that already has an
\* entry fails and leaves the existing entry (its waiter and its result slot)
\* intact: no registration removes or replaces an entry of the table.
C24_DuplicateCorrelationRejected ==
    [][\A c \in Callers :
          Registers(c) => \A e \in pending_calls : e \in pending_calls']_vars

\* C25: if reading from the inbound stream fails, the receive loop exits and
\* connection shutdown follows: running becomes false, the main loop ends and
\* the channel is eventually closed.
C25_StreamFailureShutsDown ==
    /\ [](recvPc = "exited" => ~running)
    /\ (recvPc = "exited") ~> (mainPc = "stopped" /\ channel = "closed" /\ ~running)

\* C25 witness: the stream failed while the worker was streaming: the receive
\* loop has exited and cleared running, the main loop has not yet noticed.
C25_Witness ==
    /\ recvPc = "exited"
    /\ ~running
    /\ mainPc = "loop"
    /\ channel = "open"

\* The connection state: Connecting until the stream is opened, Streaming
\* from then on, Closing once the receive loop has ended, Disconnected before
\* run() and after stop().
Phase ==
    IF mainPc \in {"start", "stopped"} THEN "Disconnected"
    ELSE IF genPc = "none" THEN "Connecting"
    ELSE IF recvPc = "exited" THEN "Closing"
    ELSE "Streaming"

PhaseOrder ==
    {<<"Disconnected", "Connecting">>, <<"Connecting", "Streaming">>,
     <<"Streaming", "Closing">>, <<"Closing", "Disconnected">>,
     <<"Streaming", "Disconnected">>}

Created == sent \o send_queue

\* C27: within one connection session no two envelopes created by the worker
\* have the same id: the REGISTER envelope, every CALL envelope and every
\* RESPONSE envelope, responses created in immediate succession included.
C27_EnvelopeIdsUnique ==
    \A i, j \in 1..Len(Created) : i # j => Created[i].id # Created[j].id

\* This step is call_worker of caller c ending in its timeout branch.
TimesOut(c) == calls[c].pc = "expired" /\ calls'[c].pc = "done"

\* C28: a call_worker timeout is contained where it occurs: it is surfaced
\* to the caller only, removes that call's entry and no other, leaves every
\* other call, the receive loop, running and the channel as they were; and
\* running only ever becomes false by the receive loop ending or by stop().
C28_TimeoutContained ==
    [][/\ \A c \in Callers :
            TimesOut(c) =>
                /\ calls'[c].outcome = "timeout"
                /\ pending_calls' = {e \in pending_calls : e.id # calls[c].id}
                /\ \A o \in Callers \ {c} : calls'[o] = calls[o]
                /\ running' = running
                /\ recvPc' = recvPc
                /\ channel' = channel
                /\ mainPc' = mainPc
                /\ send_queue' = send_queue
       /\ (running /\ ~running') => (recvPc' = "exited" \/ mainPc' = "stopped")]_vars

\* C28 witness: t1's call timed out while t2's call was pending; the worker
\* kept running and t2's response was then delivered to t2.
C28_Witness ==
    /\ calls["t1"].outcome = "timeout"
    /\ calls["t2"].outcome = "returned"
    /\ calls["t2"].by = InboundId(1)
    /\ running
    /\ recvPc = "loop"

\* Caller c is inside call_worker.
InCall(c) == calls[c].pc \in {"checked", "registered", "waiting", "expired"}

\* C29: every call_worker invocation terminates: the caller returns or
\* raises, whatever responses do or do not arrive and even if the worker is
\* stopped or the stream fails while it waits.
C29_CallTerminates ==
    \A c \in Threads :
        InCall(c) ~>
            (calls[c].pc = "done"
                /\ calls[c].outcome \in {"returned", "raised", "timeout"})

\* C29 witness: the worker was stopped and the receive loop had ended while
\* t1 was waiting, no response was ever read, and the call ended by timeout.
C29_Witness ==
    /\ calls["t1"].pc = "done"
    /\ calls["t1"].outcome = "timeout"
    /\ mainPc = "stopped"
    /\ recvPc = "exited"
    /\ calls["t1"].id \notin CallIdsSent

-----------------------------------------------------------------------------
\* The deepapp_sdk Worker serving its clients: Worker.start(), its request
\* generator and receive loop. It creates send_queue in __init__, sets running
\* after stub.Connect, hands every inbound envelope to _process_message and
\* has no call_worker.
InitDeepapp ==
    /\ variant = Deepapp
    /\ threads = {}
    /\ clients = RequestShapes
    /\ replies = PlainReplies
    /\ clock = "fine"
    /\ running = FALSE
    /\ pending_lock = "free"
    /\ channel = "none"
    /\ queue_created = TRUE
    /\ send_queue = <<>>
    /\ sent = <<>>
    /\ capability_handlers = {}
    /\ pending_calls = {}
    /\ calls = [c \in Callers |-> NewCall]
    /\ inbox = <<>>
    /\ delivered = 0
    /\ nextId = 0
    /\ mainPc = "start"
    /\ genPc = "none"
    /\ recvPc = "none"
    /\ cur = NoMsg
    /\ replied = {}
    /\ dropped = {}

NextDeepapp ==
    \/ RecvRead
    \/ HandlerReturn
    \/ RecvStreamEnd
    \/ HubDeliver
    \/ RunConnect
    \/ RunSetRunning
    \/ RunConnectStream
    \/ RunStartReceive
    \/ MainStop
    \/ GenRegister
    \/ GenTest
    \/ GenGet
    \/ GenEmpty

SpecDeepapp == InitDeepapp /\ [][NextDeepapp]_vars

\* The inbound envelope the receive loop is answering in this step.
AnsweredRequest == IF recvPc = "handler" THEN cur ELSE Head(inbox)

\* C30: every reply the worker enqueues for an inbound request is an envelope
\* of kind RESPONSE, addressed to the request's sender, on the request's
\* capability (channel).
C30_ReplyIsResponseToSender ==
    [][\A a \in replied' \ replied :
          /\ send_queue' = Append(send_queue, a.msg)
          /\ a.msg.type = "RESPONSE"
          /\ a.msg.to = AnsweredRequest.from
          /\ a.msg.channel = AnsweredRequest.channel]_vars

-----------------------------------------------------------------------------
\* python-worker-v2: DynamicWorker and PluginWorker (worker_dynamic.py,
\* worker_plugin.py). One thread runs run() and receive_loop(); gRPC runs
\* request_generator(). The capability is named inside the JSON content.
\* `running` stands for `not self.stop_event.is_set()`, send_queue for
\* self.message_queue and capability_handlers for self.capabilities.

\* request_data: {"capability": ..., "payload": ...}
RequestData(capability, payload) == [capability |-> capability, payload |-> payload]

\* self.capabilities as __init__ / _load_plugins fill it (the other
\* capabilities are served like hello; they are left out).
V2Capabilities == add_capability({}, "hello", "handle_hello", "Simple hello greeting service")

\* handle_hello's result dict.
V2Result == [message |-> "Hello"]

\* The content of PluginWorker's error_msg.
V2Error == [error |-> "Unknown capability"]

InitV2 ==
    /\ variant \in V2Variants
    /\ threads = {}
    /\ clients = {}
    /\ replies = PlainReplies
    /\ clock = "fine"
    /\ running = TRUE
    /\ pending_lock = "free"
    /\ channel = "none"
    /\ queue_created = TRUE
    /\ send_queue = <<>>
    /\ sent = <<>>
    /\ capability_handlers = V2Capabilities
    /\ pending_calls = {}
    /\ calls = [c \in Callers |-> NewCall]
    /\ inbox = <<>>
    /\ delivered = 0
    /\ nextId = 0
    /\ mainPc = "start"
    /\ genPc = "none"
    /\ recvPc = "none"
    /\ cur = NoMsg
    /\ replied = {}
    /\ dropped = {}

\* run(): channel = grpc.insecure_channel(...); receive_loop(stub):
\* response_stream = stub.Connect(self.request_generator())
V2Run ==
    /\ mainPc = "start"
    /\ channel' = "open"
    /\ genPc' = "reg"
    /\ recvPc' = "loop"
    /\ mainPc' = "loop"
    /\ UNCHANGED <<variant, clock, pending_lock, threads, clients, replies, running, queue_created,
                   send_queue, sent, capability_handlers, pending_calls, calls, inbox,
                   delivered, nextId, cur, replied, dropped>>

\* create_registration_message()
V2RegisterMsg ==
    Message("REGISTER", "reg", WorkerId, "hub", "",
            json_dumps(RegistrationData(capability_handlers)), Metadata("", "", ""))

\* yield self.create_registration_message()
V2GenRegister ==
    /\ genPc = "reg"
    /\ channel = "open"
    /\ sent' = Append(sent, V2RegisterMsg)
    /\ genPc' = "test"
    /\ UNCHANGED <<variant, clock, pending_lock, threads, clients, replies, running, channel, queue_created, send_queue,
                   capability_handlers, pending_calls, calls, inbox, delivered,
                   nextId, mainPc, recvPc, cur, replied, dropped>>

\* What the hub relays to a v2 worker: requests naming a capability the
\* worker has or one it has not, and content that is not JSON.
V2InboundEnvelopes ==
    {Message("REQUEST", InboundId(delivered + 1), "caller", WorkerId, "", content,
             Metadata("", "", "")) :
        content \in {json_dumps(RequestData(ch, Params)) : ch \in Channels} \cup {BadText}}

V2HubDeliver ==
    /\ delivered < MaxInbound
    /\ channel = "open"
    /\ Len(sent) >= 1
    /\ \E msg \in V2InboundEnvelopes : inbox' = Append(inbox, msg)
    /\ delivered' = delivered + 1
    /\ UNCHANGED <<variant, clock, pending_lock, threads, clients, replies, running, queue_created, channel, send_queue, sent,
                   capability_handlers, pending_calls, calls, nextId,
                   mainPc, genPc, recvPc, cur, replied, dropped>>

\* response_msg / error_msg of receive_loop: id=msg.id, to=getattr(msg, 'from').
V2ResponseMsg(msg, result) ==
    Message("RESPONSE", msg.id, WorkerId, msg.from, "", json_dumps(result),
            Metadata("", "", ""))

\* One iteration of `for msg in response_stream` up to the handler invocation.
V2RecvRead ==
    /\ recvPc = "loop"
    /\ channel = "open"
    /\ inbox # <<>>
    /\ LET msg == Head(inbox) IN
       /\ inbox' = Tail(inbox)
       /\ IF ~running
          THEN \* if self.stop_event.is_set(): break
               /\ recvPc' = "exited"
               /\ UNCHANGED <<send_queue, cur, replied>>
          ELSE IF ~json_ok(msg.content)
          THEN \* except json.JSONDecodeError: print
               UNCHANGED <<recvPc, send_queue, cur, replied>>
          ELSE IF json_loads(msg.content).capability \in RegistryNames(capability_handlers)
          THEN /\ recvPc' = "handler"
               /\ cur' = msg
               /\ UNCHANGED <<send_queue, replied>>
          ELSE IF variant = "plugin_v2"
          THEN /\ send_queue' = Append(send_queue, V2ResponseMsg(msg, V2Error))
               /\ replied' = replied \cup
                      {[id |-> msg.id, msg |-> V2ResponseMsg(msg, V2Error), how |-> "none"]}
               /\ UNCHANGED <<recvPc, cur>>
          ELSE \* DynamicWorker: print(f"Unknown capability: {capability}")
               UNCHANGED <<recvPc, send_queue, cur, replied>>
    /\ UNCHANGED <<variant, clock, pending_lock, threads, clients, replies, running, channel, queue_created, sent,
                   capability_handlers, pending_calls, calls, delivered, nextId,
                   mainPc, genPc, dropped>>

\* The handler returns its result, which is enqueued as the RESPONSE, or it
\* raises: `except Exception` prints and the loop goes on.
V2HandlerReturn ==
    /\ recvPc = "handler"
    /\ \/ /\ send_queue' = Append(send_queue, V2ResponseMsg(cur, V2Result))
          /\ replied' = replied \cup
                 {[id |-> cur.id, msg |-> V2ResponseMsg(cur, V2Result), how |-> "dict"]}
       \/ UNCHANGED <<send_queue, replied>>
    /\ recvPc' = "loop"
    /\ cur' = NoMsg
    /\ UNCHANGED <<variant, clock, pending_lock, threads, clients, replies, running, channel, queue_created, sent,
                   capability_handlers, pending_calls, calls, inbox, delivered, nextId,
                   mainPc, genPc, dropped>>

\* response_stream raises grpc.RpcError: receive_loop returns; run()'s
\* finally: channel.close(). stop_event stays clear.
V2StreamEnd ==
    /\ recvPc = "loop"
    /\ recvPc' = "exited"
    /\ channel' = "closed"
    /\ mainPc' = "stopped"
    /\ UNCHANGED <<variant, clock, pending_lock, threads, clients, replies, running, queue_created, send_queue, sent,
                   capability_handlers, pending_calls, calls, inbox, delivered,
                   nextId, genPc, cur, replied, dropped>>

\* KeyboardInterrupt in the thread that runs receive_loop:
\* self.stop_event.set(); finally: channel.close().
V2Interrupt ==
    /\ recvPc \in {"loop", "handler"}
    /\ running' = FALSE
    /\ recvPc' = "exited"
    /\ channel' = "closed"
    /\ mainPc' = "stopped"
    /\ cur' = NoMsg
    /\ UNCHANGED <<variant, clock, pending_lock, threads, clients, replies, queue_created, send_queue, sent,
                   capability_handlers, pending_calls, calls, inbox, delivered,
                   nextId, genPc, replied, dropped>>

NextV2 ==
    \/ V2Run
    \/ V2GenRegister
    \/ GenTest
    \/ GenGet
    \/ GenEmpty
    \/ V2HubDeliver
    \/ V2RecvRead
    \/ V2HandlerReturn
    \/ V2StreamEnd
    \/ V2Interrupt

SpecV2 == InitV2 /\ [][NextV2]_vars

\* The receive loop reads an envelope whose content parses and names a
\* capability that is not in self.capabilities.
V2ReadsUnregistered ==
    /\ recvPc = "loop"
    /\ inbox # <<>>
    /\ inbox' = Tail(inbox)
    /\ running
    /\ json_ok(Head(inbox).content)
    /\ json_loads(Head(inbox).content).capability \notin RegistryNames(capability_handlers)

\* C31: in the python-worker-v2 receive loops an inbound envelope naming a
\* capability that is not registered is answered, in that iteration, with an
\* error response addressed to the sender, and no handler is invoked.
C31_V2UnknownCapabilityAnswered ==
    [][V2ReadsUnregistered =>
          /\ recvPc' # "handler"
          /\ \E a \in replied' \ replied :
                /\ a.id = Head(inbox).id
                /\ a.msg.type = "RESPONSE"
                /\ a.msg.to = Head(inbox).from
                /\ "error" \in DOMAIN json_loads(a.msg.content)
                /\ send_queue' = Append(send_queue, a.msg)]_vars

\* The starting thread has executed `self.running = True`.
HasSetRunning ==
    IF variant = "sdk" THEN mainPc \notin {"start", "connected"}
    ELSE mainPc \notin {"start", "connected", "streaming"}

\* C32: in the workers that open the stream before setting running to True,
\* the sender generator never leaves its loop because it tested running
\* before the starting thread had set it; it exits only once the worker has
\* been started and then stopped.
C32_SenderSurvivesStartup ==
    [][(genPc = "test" /\ genPc' = "exited") => HasSetRunning]_vars

\* Caller c has registered its entry and has not yet returned or raised.
Registered(c) == calls[c].pc \in {"registered", "waiting", "expired"}

\* C33: every key of pending_calls is the correlation id of a call_worker
\* invocation that has registered and has not yet returned or raised, and
\* when no call_worker invocation is in progress pending_calls is empty.
C33_PendingKeysAreLiveCalls ==
    /\ \A e \in pending_calls :
          \E c \in Callers : Registered(c) /\ calls[c].id = e.id
    /\ (\A c \in Callers : ~InCall(c)) => pending_calls = {}

\* C33 witness: t1's call was registered, its response was matched, the call
\* returned and the table is empty again.
C33_Witness ==
    /\ calls["t1"].pc = "done"
    /\ calls["t1"].outcome = "returned"
    /\ calls["t1"].by # ""
    /\ pending_calls = {}

\* The receive loop takes a RESPONSE envelope off the inbound stream.
ReadsResponse ==
    /\ recvPc = "loop"
    /\ inbox # <<>>
    /\ Head(inbox).type = "RESPONSE"
    /\ inbox' = Tail(inbox)

\* C34: processing an inbound RESPONSE envelope puts nothing on the outbound
\* queue and invokes no capability handler, whether or not it matches a
\* pending call; no handler ever runs for a RESPONSE.
C34_ResponseNeverAnswered ==
    [][/\ ReadsResponse =>
            /\ send_queue' = send_queue
            /\ replied' = replied
            /\ recvPc' # "handler"
       /\ cur'.type # "RESPONSE"]_vars

\* The worker is not connected: it has no open channel or, in WorkerSDK,
\* running is false.
Disconnected == channel # "open" \/ (variant = "sdk" /\ ~running)

\* Caller c enters call_worker in this step.
EntersCall(c) == calls[c].pc = "idle" /\ calls'[c].pc # "idle"

\* C35: call_worker invoked while the worker is not connected raises
\* RuntimeError and has no other effect: no entry is added to pending_calls
\* and no envelope is put on the outbound queue.
C35_NotConnectedRaises ==
    [][\A c \in Callers :
          (EntersCall(c) /\ Disconnected) =>
              /\ calls'[c].pc = "done"
              /\ calls'[c].outcome = "notconnected"
              /\ pending_calls' = pending_calls
              /\ send_queue' = send_queue]_vars

\* The receive loop handles a RESPONSE whose request_id matches caller c's
\* pending entry and whose content json.loads rejects.
ReadsUnparseableMatch(c) ==
    /\ ReadsResponse
    /\ running
    /\ ~json_ok(Head(inbox).content)
    /\ Matches(Head(inbox).metadata.request_id)
    /\ PendingOwner(pending_calls, Head(inbox).metadata.request_id) = c

\* C36: a RESPONSE that matches a pending call but whose content cannot be
\* parsed resolves the call with an error: the error is stored, the waiter's
\* event is set and the entry is removed; the woken caller raises.
C36_UnparseableResponseRaises ==
    [][\A c \in Callers :
          /\ ReadsUnparseableMatch(c) =>
                /\ calls'[c].event
                /\ calls'[c].error # ""
                /\ calls[c].id \notin {e.id : e \in pending_calls'}
          /\ (calls[c].pc = "waiting" /\ calls[c].event /\ calls[c].error # ""
                 /\ calls'[c].pc # "waiting") =>
                /\ calls'[c].pc = "done"
                /\ calls'[c].outcome = "raised"]_vars

\* C36 witness: t1's call was resolved by a response that did not parse and
\* call_worker raised the parse error, with the table empty.
C36_Witness ==
    /\ calls["t1"].pc = "done"
    /\ calls["t1"].outcome = "raised"
    /\ calls["t1"].error = "Failed to parse response"
    /\ calls["t1"].by # ""
    /\ pending_calls = {}

\* The position of the inbound envelope `id` on response_stream.
ReadIndex(id) == CHOOSE n \in 1..(MaxInbound + 1) : InboundId(n) = id

\* The history records of the RESPONSE envelope m.
AnswersOf(m) == {a \in replied : a.msg = m}

\* C37: in WorkerSDK at most one handler invocation runs at a time (while a
\* handler runs the receive loop reads nothing and starts no other handler),
\* responses are put on the outbound queue in the order in which their
\* requests were read, and at most one RESPONSE is enqueued per inbound
\* REQUEST or CALL.
C37_OneHandlerResponsesInOrder ==
    /\ [](\A a, b \in replied : a.id = b.id => a = b)
    /\ [](\A i, j \in 1..Len(Created) :
            (i < j /\ Created[i].type = "RESPONSE" /\ Created[j].type = "RESPONSE") =>
                \A a \in AnswersOf(Created[i]), b \in AnswersOf(Created[j]) :
                    ReadIndex(a.id) < ReadIndex(b.id))
    /\ [][recvPc = "handler" =>
             /\ cur' \in {cur, NoMsg}
             /\ Len(inbox') >= Len(inbox)
             /\ (cur' = NoMsg) =>
                   /\ recvPc' = "loop"
                   /\ \E a \in replied' \ replied : a.id = cur.id]_vars

\* C37 witness: two requests were read and answered, the first by its handler,
\* and both responses are on the outbound side.
C37_Witness ==
    /\ \E a, b \in replied :
          /\ a.id = InboundId(1)
          /\ b.id = InboundId(2)
          /\ a.how = "dict"
    /\ Cardinality({i \in 1..Len(Created) : Created[i].type = "RESPONSE"}) = 2

-----------------------------------------------------------------------------
\* _handle_worker_call_response at statement granularity: inside the with
\* block the resolver first writes the slot (call_info['data'][...] = ...),
\* then sets the event; call_worker's wait is outside the lock.

\* call_info['data']['response'] = response_content, or, in the except
\* clause, call_info['data']['error'] = f"Failed to parse response: {e}".
ResolveStore(call, msg) ==
    IF json_ok(msg.content)
    THEN [call EXCEPT !.response = json_loads(msg.content), !.by = msg.id]
    ELSE [call EXCEPT !.error = "Failed to parse response", !.by = msg.id]

\* Mutation: the resolver sets the event as its first statement.
HeldStoreSetsEvent ==
    /\ pending_lock = Receiver
    /\ recvPc = "loop"
    /\ LET msg == Head(inbox)
           rid == msg.metadata.request_id IN
       IF Matches(rid)
       THEN LET c == PendingOwner(pending_calls, rid) IN
            /\ calls' = [calls EXCEPT ![c].event = TRUE]
            /\ recvPc' = "resolving"
            /\ UNCHANGED <<pending_lock, inbox, dropped>>
       ELSE /\ dropped' = dropped \cup {[id |-> msg.id, rid |-> rid, pending |-> PendingIds]}
            /\ inbox' = Tail(inbox)
            /\ pending_lock' = "free"
            /\ UNCHANGED <<calls, recvPc>>
    /\ UNCHANGED <<variant, clock, threads, clients, replies, running, channel, queue_created,
                   send_queue, sent, capability_handlers, pending_calls, delivered, nextId,
                   mainPc, genPc, cur, replied>>

\* The with block up to the slot write; a RESPONSE that matches no entry
\* ends the block at once.
HeldStore ==
    /\ pending_lock = Receiver
    /\ recvPc = "loop"
    /\ LET msg == Head(inbox)
           rid == msg.metadata.request_id IN
       IF Matches(rid)
       THEN LET c == PendingOwner(pending_calls, rid) IN
            /\ calls' = [calls EXCEPT ![c] = ResolveStore(calls[c], msg)]
            /\ recvPc' = "resolving"
            /\ UNCHANGED <<pending_lock, inbox, dropped>>
       ELSE /\ dropped' = dropped \cup {[id |-> msg.id, rid |-> rid, pending |-> PendingIds]}
            /\ inbox' = Tail(inbox)
            /\ pending_lock' = "free"
            /\ UNCHANGED <<calls, recvPc>>
    /\ UNCHANGED <<variant, clock, threads, clients, replies, running, channel, queue_created,
                   send_queue, sent, capability_handlers, pending_calls, delivered, nextId,
                   mainPc, genPc, cur, replied>>

\* call_info['event'].set(), WorkerSDK's del self.pending_calls[request_id];
\* the with block ends and the receive loop continues.
HeldSignal ==
    /\ pending_lock = Receiver
    /\ recvPc = "resolving"
    /\ LET rid == Head(inbox).metadata.request_id
           c == PendingOwner(pending_calls, rid) IN
       /\ calls' = [calls EXCEPT ![c].event = TRUE]
       /\ pending_calls' = PendingAfterResponse(pending_calls, rid)
    /\ inbox' = Tail(inbox)
    /\ recvPc' = "loop"
    /\ pending_lock' = "free"
    /\ UNCHANGED <<variant, clock, threads, clients, replies, running, channel, queue_created,
                   send_queue, sent, capability_handlers, delivered, nextId,
                   mainPc, genPc, cur, replied, dropped>>

NextSlot ==
    \/ \E c \in Callers : CallCheck(c)
    \/ \E th \in Callers \cup {Receiver} : LockAcquire(th)
    \/ \E c \in Callers : HeldCallRegister(c)
    \/ \E c \in Callers : CallSend(c)
    \/ \E c \in Callers : CallWait(c)
    \/ \E c \in Callers : HeldCallCleanup(c)
    \/ HeldStore
    \/ HeldSignal
    \/ RecvRequest
    \/ HandlerReturn
    \/ RecvStreamEnd
    \/ HubDeliver
    \/ RunConnect
    \/ RunSetRunning
    \/ RunConnectStream
    \/ RunStartReceive
    \/ MainStop
    \/ GenRegister
    \/ GenTest
    \/ GenGet
    \/ GenEmpty

\* One application thread calling, in each of the three worker classes, the
\* resolver at statement granularity.
SpecSlot == InitCall /\ [][NextSlot]_vars

\* response_data of the call holds what a resolution stored.
SlotWritten(call) == call.by # "" /\ (call.response # None \/ call.error # "")

\* C38: whenever a call's completion event is set its result slot has already
\* been written by the resolver, so the waiter woken by the event returns the
\* stored payload or raises the stored error, never an unfilled slot.
C38_SlotWrittenBeforeSignal ==
    /\ [](\A c \in Callers : calls[c].event => SlotWritten(calls[c]))
    /\ [][\A c \in Callers :
             (calls[c].pc = "waiting" /\ calls[c].event /\ calls'[c].pc = "done") =>
                 \/ calls'[c].outcome = "raised" /\ calls[c].error # ""
                 \/ /\ calls'[c].outcome = "returned"
                    /\ calls'[c].result = calls[c].response
                    /\ calls'[c].result # None]_vars

\* C38 witness: t1 was woken by its event and returned the payload the
\* resolver had stored.
C38_Witness ==
    /\ calls["t1"].pc = "done"
    /\ calls["t1"].outcome = "returned"
    /\ calls["t1"].event
    /\ calls["t1"].result = PeerPayload(calls["t1"].id)

====
